---- MODULE Spec2Model ----
(***************************************************************************)
(* Model of src/haskell.rs: the conversion of the flat, dot-delimited      *)
(* settings schema printed by `haskell-language-server-wrapper             *)
(* vscode-extension-schema` into the nested schema used by the editor.     *)
(*                                                                         *)
(* A string is a sequence of Unicode code points.  A serde_json::Value is  *)
(* a tagged record; an object's Map is a function from its keys to values; *)
(* the Map is serde_json's default BTreeMap, iterated in ascending key     *)
(* order.  The first segment of a key is dropped whatever it is, so keys   *)
(* with different first segments bring their paths in any order.           *)
(***************************************************************************)
EXTENDS Integers, Sequences, FiniteSets, TLC

VARIABLES
    entry,            \* which function is being exercised: "direct", "lsp", "leaf"
    spawn_ok,         \* Command::output() returned Ok
    status,           \* output.status : Option<i32>, <<>> is None, <<c>> is Some(c)
    stdout,           \* output.stdout : the bytes the process wrote
    raw_schema,       \* argument of convert_to_zed_schema, <<v>> once known
    pc,               \* position in the running function
    remaining,        \* keys of schema_map the for loop has not yet visited
    root_properties,  \* the Map built by convert_to_zed_schema
    ret,              \* value returned by convert_to_zed_schema, <<>> until it returns
    result,           \* language_server_initialization_options_schema: <<>> None, <<v>> Some of v rendered
    leaf_value,       \* argument of convert_leaf_schema
    normalized,       \* convert_leaf_schema(leaf_value), <<>> until computed
    renormalized      \* convert_leaf_schema applied to normalized, <<>> until computed

vars == <<entry, spawn_ok, status, stdout, raw_schema, pc, remaining,
          root_properties, ret, result, leaf_value, normalized, renormalized>>

(***************************************************************************)
(* Bounds of the model.                                                    *)
(***************************************************************************)
MaxKeys == 3      \* entries of a flat schema handed to convert_to_zed_schema
MaxDepth == 3     \* segments after the root prefix in a generated key

(***************************************************************************)
(* Strings used by the program, as code point sequences.                   *)
(***************************************************************************)
S_description == <<100, 101, 115, 99, 114, 105, 112, 116, 105, 111, 110>>
S_markdownDescription == <<109, 97, 114, 107, 100, 111, 119, 110, 68, 101, 115, 99, 114, 105, 112, 116, 105, 111, 110>>
S_scope == <<115, 99, 111, 112, 101>>
S_default == <<100, 101, 102, 97, 117, 108, 116>>
S_type == <<116, 121, 112, 101>>
S_enum == <<101, 110, 117, 109>>
S_enumDescriptions == <<101, 110, 117, 109, 68, 101, 115, 99, 114, 105, 112, 116, 105, 111, 110, 115>>
S_items == <<105, 116, 101, 109, 115>>
S_minimum == <<109, 105, 110, 105, 109, 117, 109>>
S_maximum == <<109, 97, 120, 105, 109, 117, 109>>
S_anyOf == <<97, 110, 121, 79, 102>>
S_properties == <<112, 114, 111, 112, 101, 114, 116, 105, 101, 115>>
S_object == <<111, 98, 106, 101, 99, 116>>
S_deprecated == <<100, 101, 112, 114, 101, 99, 97, 116, 101, 100>>
S_true == <<116, 114, 117, 101>>
S_false == <<102, 97, 108, 115, 101>>
S_null == <<110, 117, 108, 108>>

(***************************************************************************)
(* serde_json::Value                                                       *)
(***************************************************************************)
JNull == [t |-> "null"]
JBool(b) == [t |-> "bool", v |-> b]
JNum(n) == [t |-> "num", v |-> n]
JStr(s) == [t |-> "str", v |-> s]
JArr(a) == [t |-> "arr", a |-> a]
JObj(m) == [t |-> "obj", m |-> m]

IsObject(x) == x.t = "obj"

EmptyMap == <<>>

MapInsert(m, k, x) == [y \in DOMAIN m \cup {k} |-> IF y = k THEN x ELSE m[y]]

\* Ord for str: lexicographic on the code points
RECURSIVE StrLess(_, _)
StrLess(a, b) ==
    IF b = <<>> THEN FALSE
    ELSE IF a = <<>> THEN TRUE
    ELSE IF Head(a) # Head(b) THEN Head(a) < Head(b)
    ELSE StrLess(Tail(a), Tail(b))

MinKey(S) == CHOOSE k \in S : \A o \in S \ {k} : StrLess(k, o)

MaxKey(S) == CHOOSE k \in S : \A o \in S \ {k} : StrLess(o, k)

\* the keys of a Map in iteration order
RECURSIVE MapKeys(_)
MapKeys(S) ==
    IF S = {} THEN <<>>
    ELSE LET k == MinKey(S) IN <<k>> \o MapKeys(S \ {k})

(***************************************************************************)
(* convert_leaf_schema                                                     *)
(***************************************************************************)
RecognizedFields ==
    {S_default, S_type, S_enum, S_enumDescriptions, S_items, S_minimum,
     S_maximum, S_anyOf}

DroppedFields == {S_scope, S_description}

\* CopyField with a catch-all arm that drops what it does not recognize
CopyField_DenyUnknown(res, key, value) ==
    IF key \in RecognizedFields THEN MapInsert(res, key, value)
    ELSE res

\* one iteration of the copy loop: the match on the field name
CopyField(res, key, value) ==
    IF key \in RecognizedFields THEN MapInsert(res, key, value)
    ELSE IF key \in DroppedFields THEN res
    ELSE MapInsert(res, key, value)

RECURSIVE CopyFields(_, _, _)
CopyFields(res, keys, leaf_obj) ==
    IF keys = <<>> THEN res
    ELSE CopyFields(CopyField(res, Head(keys), leaf_obj[Head(keys)]),
                    Tail(keys), leaf_obj)

\* DescriptionFields without the block that reads "description"
DescriptionFields_NoDescription(leaf_obj) ==
    IF S_markdownDescription \in DOMAIN leaf_obj
    THEN MapInsert(EmptyMap, S_markdownDescription, leaf_obj[S_markdownDescription])
    ELSE EmptyMap

\* the two `if let` blocks that set markdownDescription before the loop
DescriptionFields(leaf_obj) ==
    LET r1 == IF S_description \in DOMAIN leaf_obj
              THEN MapInsert(EmptyMap, S_markdownDescription, leaf_obj[S_description])
              ELSE EmptyMap
    IN IF S_markdownDescription \in DOMAIN leaf_obj
       THEN MapInsert(r1, S_markdownDescription, leaf_obj[S_markdownDescription])
       ELSE r1

\* convert_leaf_schema with "description" applied after the copy loop
convert_leaf_schema_DescriptionLast(leaf) ==
    IF ~IsObject(leaf) THEN leaf
    ELSE LET copied == CopyFields(EmptyMap, MapKeys(DOMAIN leaf.m), leaf.m) IN
         JObj(IF S_description \in DOMAIN leaf.m
              THEN MapInsert(copied, S_markdownDescription, leaf.m[S_description])
              ELSE copied)

\* convert_leaf_schema that takes markdownDescription from "description"
\* only and drops an incoming "markdownDescription" like "description"
convert_leaf_schema_DescriptionOnly(leaf) ==
    IF ~IsObject(leaf) THEN leaf
    ELSE LET kept == {k \in DOMAIN leaf.m :
                        k \notin DroppedFields \cup {S_markdownDescription}}
         IN JObj([k \in kept \cup (IF S_description \in DOMAIN leaf.m
                                    THEN {S_markdownDescription} ELSE {}) |->
                    IF k = S_markdownDescription THEN leaf.m[S_description]
                    ELSE leaf.m[k]])

convert_leaf_schema(leaf) ==
    IF ~IsObject(leaf) THEN leaf
    ELSE JObj(CopyFields(DescriptionFields(leaf.m), MapKeys(DOMAIN leaf.m), leaf.m))

(***************************************************************************)
(* insert_nested_property                                                  *)
(***************************************************************************)
EmptyContainer ==
    JObj(MapInsert(MapInsert(EmptyMap, S_type, JStr(S_object)),
                   S_properties, JObj(EmptyMap)))

\* OrInsertContainer that installs a fresh container whatever is there
OrInsertContainer_Always(properties, key) == EmptyContainer

\* properties.entry(key).or_insert_with(|| json!({type: object, properties: {}}))
OrInsertContainer(properties, key) ==
    IF key \in DOMAIN properties THEN properties[key] ELSE EmptyContainer

\* obj.entry("properties").or_insert_with(|| json!({}))
OrInsertProps(obj) ==
    IF S_properties \in DOMAIN obj THEN obj[S_properties] ELSE JObj(EmptyMap)

RECURSIVE insert_nested_property(_, _, _)
insert_nested_property(properties, path, leaf) ==
    IF path = <<>> THEN properties
    ELSE LET key == Head(path) IN
      IF Len(path) = 1
      THEN MapInsert(properties, key, convert_leaf_schema(leaf))
      ELSE LET ent == OrInsertContainer(properties, key) IN
        IF ~IsObject(ent) THEN MapInsert(properties, key, ent)
        ELSE LET props == OrInsertProps(ent.m) IN
          IF ~IsObject(props)
          THEN MapInsert(properties, key, JObj(MapInsert(ent.m, S_properties, props)))
          ELSE MapInsert(properties, key,
                 JObj(MapInsert(ent.m, S_properties,
                        JObj(insert_nested_property(props.m, Tail(path), leaf)))))

(***************************************************************************)
(* convert_to_zed_schema: key.split('.') and the drop of the root prefix   *)
(***************************************************************************)
Dot == 46

\* str::split('.'): always at least one part, empty parts are kept
RECURSIVE Split(_, _)
Split(s, cur) ==
    IF s = <<>> THEN <<cur>>
    ELSE IF Head(s) = Dot THEN <<cur>> \o Split(Tail(s), <<>>)
    ELSE Split(Tail(s), Append(cur, Head(s)))

Parts(key) == Split(key, <<>>)

\* &parts[1..]
PathOf(key) == Tail(Parts(key))

\* json!({"type": "object", "properties": root_properties})
WrapRoot(props) ==
    JObj(MapInsert(MapInsert(EmptyMap, S_type, JStr(S_object)),
                   S_properties, JObj(props)))

(***************************************************************************)
(* String::from_utf8_lossy: bytes to code points, each maximal invalid     *)
(* subpart replaced by U+FFFD                                              *)
(***************************************************************************)
Replacement == 65533

IsCont(b, i, lo, hi) == i <= Len(b) /\ b[i] >= lo /\ b[i] <= hi

\* lowest and highest legal second byte after lead byte x
SecondLo(x) == IF x = 224 THEN 160 ELSE IF x = 240 THEN 144 ELSE 128

SecondHi(x) == IF x = 237 THEN 159 ELSE IF x = 244 THEN 143 ELSE 191

\* one chunk at position i: the code point, the bytes consumed, whether it was valid
DecodeAt(b, i) ==
    LET x == b[i]
        bad(n) == [cp |-> Replacement, n |-> n, ok |-> FALSE]
    IN IF x < 128 THEN [cp |-> x, n |-> 1, ok |-> TRUE]
       ELSE IF x >= 194 /\ x <= 223 THEN
            IF IsCont(b, i + 1, 128, 191)
            THEN [cp |-> (x - 192) * 64 + (b[i + 1] - 128), n |-> 2, ok |-> TRUE]
            ELSE bad(1)
       ELSE IF x >= 224 /\ x <= 239 THEN
            IF ~IsCont(b, i + 1, SecondLo(x), SecondHi(x)) THEN bad(1)
            ELSE IF ~IsCont(b, i + 2, 128, 191) THEN bad(2)
            ELSE [cp |-> (x - 224) * 4096 + (b[i + 1] - 128) * 64 + (b[i + 2] - 128),
                  n |-> 3, ok |-> TRUE]
       ELSE IF x >= 240 /\ x <= 244 THEN
            IF ~IsCont(b, i + 1, SecondLo(x), SecondHi(x)) THEN bad(1)
            ELSE IF ~IsCont(b, i + 2, 128, 191) THEN bad(2)
            ELSE IF ~IsCont(b, i + 3, 128, 191) THEN bad(3)
            ELSE [cp |-> (x - 240) * 262144 + (b[i + 1] - 128) * 4096
                          + (b[i + 2] - 128) * 64 + (b[i + 3] - 128),
                  n |-> 4, ok |-> TRUE]
       ELSE bad(1)

RECURSIVE LossyFrom(_, _)
LossyFrom(b, i) ==
    IF i > Len(b) THEN <<>>
    ELSE LET d == DecodeAt(b, i) IN <<d.cp>> \o LossyFrom(b, i + d.n)

from_utf8_lossy(b) == LossyFrom(b, 1)

\* whether the bytes are well-formed UTF-8 (String::from_utf8 would accept them)
RECURSIVE Utf8ValidFrom(_, _)
Utf8ValidFrom(b, i) ==
    IF i > Len(b) THEN TRUE
    ELSE LET d == DecodeAt(b, i) IN d.ok /\ Utf8ValidFrom(b, i + d.n)

Utf8Valid(b) == Utf8ValidFrom(b, 1)

(***************************************************************************)
(* serde_json::from_str: a recursive-descent reader of the JSON grammar.   *)
(* A reader returns [ok, v, i]: success, the value, the next position.     *)
(***************************************************************************)
ParseFail == [ok |-> FALSE, v |-> JNull, i |-> 0]

ParseOk(x, i) == [ok |-> TRUE, v |-> x, i |-> i]

IsWs(c) == c \in {32, 9, 10, 13}

IsDigit(c) == c >= 48 /\ c <= 57

RECURSIVE SkipWs(_, _)
SkipWs(s, i) == IF i <= Len(s) /\ IsWs(s[i]) THEN SkipWs(s, i + 1) ELSE i

\* the literal w stands at position i
Matches(s, i, w) ==
    /\ i + Len(w) - 1 <= Len(s)
    /\ \A k \in 1..Len(w) : s[i + k - 1] = w[k]

HexVal(c) ==
    IF IsDigit(c) THEN c - 48
    ELSE IF c >= 97 /\ c <= 102 THEN c - 87
    ELSE IF c >= 65 /\ c <= 70 THEN c - 55
    ELSE -1

\* four hex digits at position i, -1 when they are not there
Hex4(s, i) ==
    IF i + 3 > Len(s) THEN -1
    ELSE IF \E k \in 0..3 : HexVal(s[i + k]) < 0 THEN -1
    ELSE HexVal(s[i]) * 4096 + HexVal(s[i + 1]) * 256 + HexVal(s[i + 2]) * 16 + HexVal(s[i + 3])

\* the character a one-letter escape stands for, -1 when it is no escape
EscapeOf(c) ==
    IF c \in {34, 92, 47} THEN c
    ELSE IF c = 98 THEN 8
    ELSE IF c = 102 THEN 12
    ELSE IF c = 110 THEN 10
    ELSE IF c = 114 THEN 13
    ELSE IF c = 116 THEN 9
    ELSE -1

\* the body of a string, after its opening quote
RECURSIVE ParseString(_, _, _)
ParseString(s, i, acc) ==
    IF i > Len(s) THEN ParseFail
    ELSE LET c == s[i] IN
      IF c = 34 THEN ParseOk(acc, i + 1)
      ELSE IF c < 32 THEN ParseFail
      ELSE IF c # 92 THEN ParseString(s, i + 1, Append(acc, c))
      ELSE IF i + 1 > Len(s) THEN ParseFail
      ELSE IF s[i + 1] # 117 THEN
           IF EscapeOf(s[i + 1]) < 0 THEN ParseFail
           ELSE ParseString(s, i + 2, Append(acc, EscapeOf(s[i + 1])))
      ELSE LET h == Hex4(s, i + 2) IN
           IF h < 0 THEN ParseFail
           ELSE IF h >= 56320 /\ h <= 57343 THEN ParseFail
           ELSE IF h < 55296 \/ h > 57343 THEN ParseString(s, i + 6, Append(acc, h))
           ELSE IF ~Matches(s, i + 6, <<92, 117>>) THEN ParseFail
           ELSE LET l == Hex4(s, i + 8) IN
                IF l < 56320 \/ l > 57343 THEN ParseFail
                ELSE ParseString(s, i + 12,
                       Append(acc, 65536 + (h - 55296) * 1024 + (l - 56320)))

RECURSIVE DigitsEnd(_, _)
DigitsEnd(s, i) == IF i <= Len(s) /\ IsDigit(s[i]) THEN DigitsEnd(s, i + 1) ELSE i

RECURSIVE DigitsValue(_, _, _, _)
DigitsValue(s, i, j, acc) ==
    IF i >= j THEN acc ELSE DigitsValue(s, i + 1, j, acc * 10 + (s[i] - 48))

\* a number starting at i: an integer keeps its value, a number with a
\* fraction or an exponent keeps its text
ParseNumber(s, i) ==
    LET neg == s[i] = 45
        d == IF neg THEN i + 1 ELSE i
        e == IF d <= Len(s) /\ s[d] = 48 THEN d + 1 ELSE DigitsEnd(s, d)
        hasFrac == e <= Len(s) /\ s[e] = 46
        f == IF hasFrac THEN DigitsEnd(s, e + 1) ELSE e
        hasExp == f <= Len(s) /\ s[f] \in {101, 69}
        g == IF hasExp /\ f + 1 <= Len(s) /\ s[f + 1] \in {43, 45} THEN f + 2 ELSE f + 1
        x == IF hasExp THEN DigitsEnd(s, g) ELSE f
    IN IF e = d THEN ParseFail
       ELSE IF hasFrac /\ f = e + 1 THEN ParseFail
       ELSE IF hasExp /\ x = g THEN ParseFail
       ELSE IF ~hasFrac /\ ~hasExp
            THEN ParseOk(JNum(IF neg THEN 0 - DigitsValue(s, d, e, 0)
                                     ELSE DigitsValue(s, d, e, 0)), e)
            ELSE ParseOk([t |-> "float", v |-> SubSeq(s, i, x - 1)], x)

RECURSIVE ParseValue(_, _), ParseElements(_, _, _), ParseMembers(_, _, _)
ParseValue(s, i0) ==
    LET i == SkipWs(s, i0) IN
    IF i > Len(s) THEN ParseFail
    ELSE LET c == s[i] IN
      IF c = 110 THEN (IF Matches(s, i, S_null) THEN ParseOk(JNull, i + 4) ELSE ParseFail)
      ELSE IF c = 116 THEN (IF Matches(s, i, S_true) THEN ParseOk(JBool(TRUE), i + 4) ELSE ParseFail)
      ELSE IF c = 102 THEN (IF Matches(s, i, S_false) THEN ParseOk(JBool(FALSE), i + 5) ELSE ParseFail)
      ELSE IF c = 34 THEN
           LET r == ParseString(s, i + 1, <<>>) IN
           IF r.ok THEN ParseOk(JStr(r.v), r.i) ELSE ParseFail
      ELSE IF c = 45 \/ IsDigit(c) THEN ParseNumber(s, i)
      ELSE IF c = 91 THEN
           LET j == SkipWs(s, i + 1) IN
           IF j <= Len(s) /\ s[j] = 93 THEN ParseOk(JArr(<<>>), j + 1)
           ELSE ParseElements(s, j, <<>>)
      ELSE IF c = 123 THEN
           LET j == SkipWs(s, i + 1) IN
           IF j <= Len(s) /\ s[j] = 125 THEN ParseOk(JObj(EmptyMap), j + 1)
           ELSE ParseMembers(s, j, EmptyMap)
      ELSE ParseFail

\* the elements of an array, from the first one to the closing bracket
ParseElements(s, i, acc) ==
    LET r == ParseValue(s, i) IN
    IF ~r.ok THEN ParseFail
    ELSE LET j == SkipWs(s, r.i) IN
      IF j > Len(s) THEN ParseFail
      ELSE IF s[j] = 93 THEN ParseOk(JArr(Append(acc, r.v)), j + 1)
      ELSE IF s[j] = 44 THEN ParseElements(s, j + 1, Append(acc, r.v))
      ELSE ParseFail

\* the members of an object, from the first key to the closing brace; a
\* repeated key replaces the earlier member
ParseMembers(s, i0, acc) ==
    LET i == SkipWs(s, i0) IN
    IF i > Len(s) \/ s[i] # 34 THEN ParseFail
    ELSE LET k == ParseString(s, i + 1, <<>>) IN
      IF ~k.ok THEN ParseFail
      ELSE LET c == SkipWs(s, k.i) IN
        IF c > Len(s) \/ s[c] # 58 THEN ParseFail
        ELSE LET r == ParseValue(s, c + 1) IN
          IF ~r.ok THEN ParseFail
          ELSE LET j == SkipWs(s, r.i) IN
            IF j > Len(s) THEN ParseFail
            ELSE IF s[j] = 125 THEN ParseOk(JObj(MapInsert(acc, k.v, r.v)), j + 1)
            ELSE IF s[j] = 44 THEN ParseMembers(s, j + 1, MapInsert(acc, k.v, r.v))
            ELSE ParseFail

\* serde_json::from_str(..).ok(): <<>> on a syntax error or on trailing characters
from_str(s) ==
    LET r == ParseValue(s, 1) IN
    IF r.ok /\ SkipWs(s, r.i) > Len(s) THEN <<r.v>> ELSE <<>>

(***************************************************************************)
(* Value::to_string: the compact JSON text of a value                      *)
(***************************************************************************)
HexDigit(n) == IF n < 10 THEN 48 + n ELSE 87 + n

\* the text of one character inside a string literal
EscapeChar(c) ==
    IF c = 34 THEN <<92, 34>>
    ELSE IF c = 92 THEN <<92, 92>>
    ELSE IF c = 8 THEN <<92, 98>>
    ELSE IF c = 12 THEN <<92, 102>>
    ELSE IF c = 10 THEN <<92, 110>>
    ELSE IF c = 13 THEN <<92, 114>>
    ELSE IF c = 9 THEN <<92, 116>>
    ELSE IF c < 32 THEN <<92, 117, 48, 48, HexDigit(c \div 16), HexDigit(c % 16)>>
    ELSE <<c>>

RECURSIVE EscapeText(_)
EscapeText(s) == IF s = <<>> THEN <<>> ELSE EscapeChar(Head(s)) \o EscapeText(Tail(s))

Quoted(s) == <<34>> \o EscapeText(s) \o <<34>>

RECURSIVE NatText(_)
NatText(n) == IF n < 10 THEN <<48 + n>> ELSE NatText(n \div 10) \o <<48 + (n % 10)>>

IntText(n) == IF n < 0 THEN <<45>> \o NatText(0 - n) ELSE NatText(n)

RECURSIVE to_string(_), ElementsText(_), MembersText(_, _)
to_string(x) ==
    IF x.t = "null" THEN S_null
    ELSE IF x.t = "bool" THEN (IF x.v THEN S_true ELSE S_false)
    ELSE IF x.t = "num" THEN IntText(x.v)
    ELSE IF x.t = "float" THEN x.v
    ELSE IF x.t = "str" THEN Quoted(x.v)
    ELSE IF x.t = "arr" THEN <<91>> \o ElementsText(x.a) \o <<93>>
    ELSE <<123>> \o MembersText(x.m, MapKeys(DOMAIN x.m)) \o <<125>>

ElementsText(a) ==
    IF a = <<>> THEN <<>>
    ELSE IF Len(a) = 1 THEN to_string(a[1])
    ELSE to_string(a[1]) \o <<44>> \o ElementsText(Tail(a))

MembersText(m, keys) ==
    IF keys = <<>> THEN <<>>
    ELSE LET one == Quoted(Head(keys)) \o <<58>> \o to_string(m[Head(keys)]) IN
      IF Len(keys) = 1 THEN one ELSE one \o <<44>> \o MembersText(m, Tail(keys))

(***************************************************************************)
(* language_server_initialization_options_schema, up to the parsed value:  *)
(* <<>> when one of the three early returns is taken                       *)
(***************************************************************************)
\* FetchValue without the check of the exit status
FetchValue_NoStatusCheck(spawned, exit_status, out) ==
    IF ~spawned THEN <<>>
    ELSE from_str(from_utf8_lossy(out))

FetchValue(spawned, exit_status, out) ==
    IF ~spawned THEN <<>>
    ELSE IF exit_status # <<0>> THEN <<>>
    ELSE from_str(from_utf8_lossy(out))

(***************************************************************************)
(* Inputs                                                                  *)
(***************************************************************************)
\* one key, an object leaf: {"haskell.a":{"description":"d","scope":"r"}}
OutLeaf ==
    <<123, 34, 104, 97, 115, 107, 101, 108, 108, 46, 97, 34, 58, 123, 34, 100, 101, 115, 99, 114, 105, 112, 116, 105, 111, 110, 34, 58, 34, 100, 34, 44, 34, 115, 99, 111, 112, 101, 34, 58, 34, 114, 34, 125, 125>>

\* the byte FF inside a string literal: {"haskell.a":"\xff"}
OutBadByteInString ==
    <<123, 34, 104, 97, 115, 107, 101, 108, 108, 46, 97, 34, 58, 34, 255, 34, 125>>

\* the byte FF outside any string literal: \xff{}
OutBadByteOutside ==
    <<255, 123, 125>>

\* a text cut short: {"haskell.a":
OutTruncated ==
    <<123, 34, 104, 97, 115, 107, 101, 108, 108, 46, 97, 34, 58>>

\* no output at all
OutEmpty ==
    <<>>

\* an array at the top level: [1, true]
OutArray ==
    <<91, 49, 44, 32, 116, 114, 117, 101, 93>>

\* a key that is a prefix of another: {"h.a.b":1,"h.a":{"type":"x"}}
OutPrefix ==
    <<123, 34, 104, 46, 97, 46, 98, 34, 58, 49, 44, 34, 104, 46, 97, 34, 58, 123, 34, 116, 121, 112, 101, 34, 58, 34, 120, 34, 125, 125>>

\* a well-formed two-byte character: {"haskell.\xc3\xa9":null}
OutTwoByte ==
    <<123, 34, 104, 97, 115, 107, 101, 108, 108, 46, 195, 169, 34, 58, 110, 117, 108, 108, 125>>

\* a scalar at the top level: null\n
OutScalar ==
    <<110, 117, 108, 108, 10>>

\* a value followed by more characters: {} x
OutTrailing ==
    <<123, 125, 32, 120>>

\* a key with the root segment only: {"hls":{}}
OutRootOnly ==
    <<123, 34, 104, 108, 115, 34, 58, 123, 125, 125>>

\* a three-byte character cut after two bytes: {"h.a":"\xe2\x82"}
OutCutSequence ==
    <<123, 34, 104, 46, 97, 34, 58, 34, 226, 130, 34, 125>>

StdoutSamples ==
    {OutLeaf, OutBadByteInString, OutBadByteOutside, OutTruncated, OutEmpty,
     OutArray, OutPrefix, OutTwoByte, OutScalar, OutTrailing, OutRootOnly,
     OutCutSequence}

\* exit statuses: killed by a signal (None), success, failure
StatusSamples == {<<>>, <<0>>, <<1>>}

\* first segments "g" and "h", later segments "a" and "b"
RootNames == {<<103>>, <<104>>}

SegNames == {<<97>>, <<98>>}

\* n times the segment "a"
RECURSIVE Spine(_)
Spine(n) == IF n = 0 THEN <<>> ELSE Append(Spine(n - 1), <<97>>)

\* the paths of n segments that branch at their last segment
PathsOfLen(n) ==
    IF n = 0 THEN {<<>>}
    ELSE {Append(Spine(n - 1), x) : x \in SegNames}

SamplePaths == UNION {PathsOfLen(n) : n \in 0..MaxDepth}

RECURSIVE Join(_)
Join(parts) ==
    IF Len(parts) = 1 THEN parts[1]
    ELSE parts[1] \o <<Dot>> \o Join(Tail(parts))

SampleKeys == {Join(<<r>> \o q) : r \in RootNames, q \in SamplePaths}

RECURSIVE KSubsets(_, _)
KSubsets(S, k) ==
    IF k = 0 THEN {{}}
    ELSE LET smaller == KSubsets(S, k - 1) IN
         smaller \cup {T \cup {x} : T \in smaller, x \in S}

\* a scalar leaf and an object leaf
LeafSamples ==
    {JBool(TRUE),
     JObj(MapInsert(MapInsert(EmptyMap, S_description, JStr(<<100>>)),
                    S_scope, JStr(<<114>>)))}

FlatSchemas == UNION {[K -> LeafSamples] : K \in KSubsets(SampleKeys, MaxKeys)}

NonObjectRoots ==
    {JNull, JBool(FALSE), JNum(7), JStr(S_object), JArr(<<>>), JArr(<<JNum(1), JNull>>)}

DirectInputs == NonObjectRoots \cup {JObj(m) : m \in FlatSchemas}

\* leaves for convert_leaf_schema: every combination of fields present
DescSamples == {<<100, 49>>, <<100, 50>>}

OptionOf(S) == {<<>>} \cup {<<x>> : x \in S}

OtherFields == RecognizedFields \cup {S_deprecated}

FieldValueSamples == {JBool(TRUE), JStr(<<120>>)}

LeafObject(d, md, sc, others, val) ==
    [k \in (IF d = <<>> THEN {} ELSE {S_description})
           \cup (IF md = <<>> THEN {} ELSE {S_markdownDescription})
           \cup (IF sc = <<>> THEN {} ELSE {S_scope})
           \cup others |->
        IF k = S_description THEN JStr(d[1])
        ELSE IF k = S_markdownDescription THEN JStr(md[1])
        ELSE IF k = S_scope THEN JStr(sc[1])
        ELSE val]

LeafInputs ==
    NonObjectRoots \cup
    {JObj(LeafObject(d, md, sc, others, val)) :
        d \in OptionOf(DescSamples), md \in OptionOf(DescSamples),
        sc \in OptionOf({<<114>>}), others \in SUBSET OtherFields,
        val \in FieldValueSamples}

(***************************************************************************)
(* Initial states                                                          *)
(***************************************************************************)
NoLeaf ==
    /\ leaf_value = JNull
    /\ normalized = <<>>
    /\ renormalized = <<>>

NoProcess ==
    /\ spawn_ok = FALSE
    /\ status = <<>>
    /\ stdout = <<>>

\* a direct call of convert_to_zed_schema, as the test makes
InitDirect ==
    /\ entry = "direct"
    /\ NoProcess
    /\ raw_schema \in {<<x>> : x \in DirectInputs}
    /\ pc = "convert"

\* a call of language_server_initialization_options_schema
InitLsp ==
    /\ entry = "lsp"
    /\ \/ NoProcess
       \/ /\ spawn_ok = TRUE
          /\ status \in StatusSamples
          /\ stdout \in StdoutSamples
    /\ raw_schema = <<>>
    /\ pc = "fetch"

Init ==
    /\ InitDirect \/ InitLsp
    /\ remaining = {}
    /\ root_properties = EmptyMap
    /\ ret = <<>>
    /\ result = <<>>
    /\ NoLeaf

\* a call of convert_leaf_schema
InitLeaf ==
    /\ entry = "leaf"
    /\ NoProcess
    /\ raw_schema = <<>>
    /\ pc = "leaf"
    /\ remaining = {}
    /\ root_properties = EmptyMap
    /\ ret = <<>>
    /\ result = <<>>
    /\ leaf_value \in LeafInputs
    /\ normalized = <<>>
    /\ renormalized = <<>>

(***************************************************************************)
(* Actions                                                                 *)
(***************************************************************************)
\* lines 85-94: run the process, check its status, decode and parse its output
FetchSchema ==
    /\ pc = "fetch"
    /\ LET value == FetchValue(spawn_ok, status, stdout) IN
       IF value = <<>>
       THEN /\ pc' = "done"
            /\ UNCHANGED raw_schema
       ELSE /\ raw_schema' = value
            /\ pc' = "convert"
    /\ UNCHANGED <<entry, spawn_ok, status, stdout, remaining, root_properties,
                   ret, result, leaf_value, normalized, renormalized>>

AfterReturn == IF entry = "lsp" THEN "returned" ELSE "done"

\* CloneOf that wraps the value like the object case does
CloneOf_Wrapped(x) == WrapRoot(EmptyMap)

\* raw_schema.clone()
CloneOf(x) == x

\* lines 100-102: a non-object is returned as it is
ConvertNonObject ==
    /\ pc = "convert"
    /\ ~IsObject(raw_schema[1])
    /\ ret' = <<CloneOf(raw_schema[1])>>
    /\ pc' = AfterReturn
    /\ UNCHANGED <<entry, spawn_ok, status, stdout, raw_schema, remaining,
                   root_properties, result, leaf_value, normalized, renormalized>>

\* lines 100-106: an object starts the loop over its entries
ConvertBegin ==
    /\ pc = "convert"
    /\ IsObject(raw_schema[1])
    /\ root_properties' = EmptyMap
    /\ remaining' = DOMAIN raw_schema[1].m
    /\ pc' = "loop"
    /\ UNCHANGED <<entry, spawn_ok, status, stdout, raw_schema, ret, result,
                   leaf_value, normalized, renormalized>>

\* the entry the loop visits next
NextKey == MinKey(remaining)

\* lines 107-116: a key with nothing after its first segment is skipped
LoopSkip ==
    /\ pc = "loop"
    /\ remaining # {}
    /\ PathOf(NextKey) = <<>>
    /\ remaining' = remaining \ {NextKey}
    /\ UNCHANGED <<entry, spawn_ok, status, stdout, raw_schema, pc,
                   root_properties, ret, result, leaf_value, normalized,
                   renormalized>>

\* lines 107-118: the leaf of any other key is inserted under its path
LoopInsert ==
    /\ pc = "loop"
    /\ remaining # {}
    /\ PathOf(NextKey) # <<>>
    /\ root_properties' =
          insert_nested_property(root_properties, PathOf(NextKey),
                                 raw_schema[1].m[NextKey])
    /\ remaining' = remaining \ {NextKey}
    /\ UNCHANGED <<entry, spawn_ok, status, stdout, raw_schema, pc, ret, result,
                   leaf_value, normalized, renormalized>>

\* lines 121-124: the tree is wrapped and returned
ConvertReturn ==
    /\ pc = "loop"
    /\ remaining = {}
    /\ ret' = <<WrapRoot(root_properties)>>
    /\ pc' = AfterReturn
    /\ UNCHANGED <<entry, spawn_ok, status, stdout, raw_schema, remaining,
                   root_properties, result, leaf_value, normalized, renormalized>>

\* line 95: Some(convert_to_zed_schema(&value).to_string())
LspReturn ==
    /\ pc = "returned"
    /\ result' = <<to_string(ret[1])>>
    /\ pc' = "done"
    /\ UNCHANGED <<entry, spawn_ok, status, stdout, raw_schema, remaining,
                   root_properties, ret, leaf_value, normalized, renormalized>>

Next ==
    \/ FetchSchema
    \/ ConvertNonObject
    \/ ConvertBegin
    \/ LoopSkip
    \/ LoopInsert
    \/ ConvertReturn
    \/ LspReturn

Spec == Init /\ [][Next]_vars

\* convert_leaf_schema applied to the leaf
Normalize ==
    /\ pc = "leaf"
    /\ normalized' = <<convert_leaf_schema(leaf_value)>>
    /\ pc' = "normalized"
    /\ UNCHANGED <<entry, spawn_ok, status, stdout, raw_schema, remaining,
                   root_properties, ret, result, leaf_value, renormalized>>

\* convert_leaf_schema applied to its own output
Renormalize ==
    /\ pc = "normalized"
    /\ renormalized' = <<convert_leaf_schema(normalized[1])>>
    /\ pc' = "done"
    /\ UNCHANGED <<entry, spawn_ok, status, stdout, raw_schema, remaining,
                   root_properties, ret, result, leaf_value, normalized>>

NextLeaf ==
    \/ Normalize
    \/ Renormalize

SpecLeaf == InitLeaf /\ [][NextLeaf]_vars

(***************************************************************************)
(* Reading the tree                                                        *)
(***************************************************************************)
\* a node one can descend into: an object whose "properties" is an object
IsContainer(n) ==
    /\ IsObject(n)
    /\ S_properties \in DOMAIN n.m
    /\ IsObject(n.m[S_properties])

\* the paths of all nodes reached from a Map through "properties"
RECURSIVE NodePaths(_)
NodePaths(props) ==
    UNION {{<<k>>} \cup
           (IF IsContainer(props[k])
            THEN {<<k>> \o q : q \in NodePaths(props[k].m[S_properties].m)}
            ELSE {}) : k \in DOMAIN props}

\* the node at path q, for q in NodePaths(props)
RECURSIVE NodeAt(_, _)
NodeAt(props, q) ==
    IF Len(q) = 1 THEN props[q[1]]
    ELSE NodeAt(props[q[1]].m[S_properties].m, Tail(q))

LeafPaths(props) == {q \in NodePaths(props) : ~IsContainer(NodeAt(props, q))}

IsPrefix(q, p) == Len(q) <= Len(p) /\ SubSeq(p, 1, Len(q)) = q

IsStrictPrefix(q, p) == Len(q) < Len(p) /\ IsPrefix(q, p)

\* the paths of the input: first segment dropped, empty paths discarded
InputPaths(m) == {PathOf(k) : k \in DOMAIN m} \ {<<>>}

Returned == ret # <<>>

ObjectInput == raw_schema # <<>> /\ IsObject(raw_schema[1])

OutputTree == ret[1].m[S_properties].m

(***************************************************************************)
(* Properties of convert_to_zed_schema and insert_nested_property          *)
(***************************************************************************)
\* C1: once convert_to_zed_schema has returned for an object input, the
\* leaf paths of the output tree are exactly the input's paths (first
\* segment dropped, empty paths discarded).
C1_PathsMirrored ==
    (Returned /\ ObjectInput) =>
        LeafPaths(OutputTree) = InputPaths(raw_schema[1].m)

\* C2: a leaf stored at a path is terminal: the insertion of a later key of
\* which that path is a strict prefix leaves the leaf in place and unchanged.
C2_LeafTerminal ==
    [][LoopInsert =>
        \A q \in NodePaths(root_properties) :
            (/\ ~IsContainer(NodeAt(root_properties, q))
             /\ IsStrictPrefix(q, PathOf(NextKey)))
            => /\ q \in NodePaths(root_properties')
               /\ NodeAt(root_properties', q) = NodeAt(root_properties, q)]_vars

\* the keys of the input whose path is p
KeysOfPath(m, p) == {k \in DOMAIN m : PathOf(k) = p}

\* C9: when two input keys yield the same path, the output holds at that
\* path the normalized leaf of the one processed last.
C9_LastWriteWins ==
    (Returned /\ ObjectInput) =>
        \A p \in InputPaths(raw_schema[1].m) :
            LET ks == KeysOfPath(raw_schema[1].m, p) IN
            Cardinality(ks) >= 2 =>
                /\ p \in NodePaths(OutputTree)
                /\ NodeAt(OutputTree, p) =
                       convert_leaf_schema(raw_schema[1].m[MaxKey(ks)])

\* C7: a top-level value that is not an object is returned as it is.
C7_NonObjectPassThrough ==
    (Returned /\ ~ObjectInput) => ret = raw_schema

C7_Witness ==
    /\ Returned
    /\ raw_schema[1].t = "arr"
    /\ raw_schema[1].a # <<>>

\* the children of a container
ChildrenOf(n) == n.m[S_properties].m

OtherFieldsOf(n) == [k \in DOMAIN n.m \ {S_properties} |-> n.m[k]]

LspDone == entry = "lsp" /\ pc = "done"

\* C8 as stated: no schema when the process fails to run, exits without
\* success, or writes output that is not UTF-8 or not JSON.
C8_NoneOnUndecodable ==
    (/\ LspDone
     /\ \/ ~spawn_ok
        \/ status # <<0>>
        \/ ~Utf8Valid(stdout)
        \/ from_str(from_utf8_lossy(stdout)) = <<>>)
    => result = <<>>

\* C8 (amended): no schema when the process fails to run, exits without
\* success, or writes output whose lossy decoding is not JSON; the
\* conversion runs only on the parsed value of a successful run, and a
\* schema that is returned is the text of the finished conversion.
C8_NoneOnFailure ==
    /\ (/\ LspDone
        /\ \/ ~spawn_ok
           \/ status # <<0>>
           \/ from_str(from_utf8_lossy(stdout)) = <<>>)
       => result = <<>>
    /\ (entry = "lsp" /\ pc \in {"convert", "loop", "returned"})
       => /\ spawn_ok
          /\ status = <<0>>
          /\ raw_schema # <<>>
          /\ raw_schema = from_str(from_utf8_lossy(stdout))
    /\ (entry = "lsp" /\ result # <<>>)
       => /\ pc = "done"
          /\ remaining = {}
          /\ Returned
          /\ result = <<to_string(ret[1])>>

\* a successful run whose output is not UTF-8 and, decoded, not JSON
C8_Witness ==
    /\ LspDone
    /\ spawn_ok
    /\ status = <<0>>
    /\ ~Utf8Valid(stdout)
    /\ result = <<>>

(***************************************************************************)
(* Properties of convert_leaf_schema                                       *)
(***************************************************************************)
Normalized == entry = "leaf" /\ normalized # <<>>

ObjectLeaf == IsObject(leaf_value)

Has(x, k) == k \in DOMAIN x.m

\* C3: the output of an object leaf is an object that has markdownDescription
\* exactly when the leaf had description or markdownDescription.
C3_MarkdownIff ==
    (Normalized /\ ObjectLeaf) =>
        /\ IsObject(normalized[1])
        /\ Has(normalized[1], S_markdownDescription)
           <=> (Has(leaf_value, S_description) \/ Has(leaf_value, S_markdownDescription))

C3_Witness ==
    /\ Normalized
    /\ ObjectLeaf
    /\ Has(leaf_value, S_description)
    /\ ~Has(leaf_value, S_markdownDescription)
    /\ Has(normalized[1], S_markdownDescription)

BothDescriptions ==
    /\ ObjectLeaf
    /\ Has(leaf_value, S_description)
    /\ Has(leaf_value, S_markdownDescription)
    /\ leaf_value.m[S_description] # leaf_value.m[S_markdownDescription]

\* C4: with both description and markdownDescription, of different values,
\* the output's markdownDescription is the input's markdownDescription.
C4_MarkdownWins ==
    (Normalized /\ BothDescriptions) =>
        /\ Has(normalized[1], S_markdownDescription)
        /\ normalized[1].m[S_markdownDescription] = leaf_value.m[S_markdownDescription]
        /\ normalized[1].m[S_markdownDescription] # leaf_value.m[S_description]

C4_Witness ==
    /\ Normalized
    /\ BothDescriptions
    /\ DOMAIN leaf_value.m \cap RecognizedFields # {}

\* C5: the output of an object leaf has neither description nor scope, and
\* every other field but markdownDescription is in the output exactly when
\* it is in the input, with the same value.
C5_FieldsKept ==
    (Normalized /\ ObjectLeaf) =>
        /\ ~Has(normalized[1], S_description)
        /\ ~Has(normalized[1], S_scope)
        /\ \A k \in (DOMAIN leaf_value.m \cup DOMAIN normalized[1].m)
                    \ {S_description, S_scope, S_markdownDescription} :
              /\ Has(leaf_value, k)
              /\ Has(normalized[1], k)
              /\ normalized[1].m[k] = leaf_value.m[k]

C5_Witness ==
    /\ Normalized
    /\ ObjectLeaf
    /\ Has(leaf_value, S_description)
    /\ Has(leaf_value, S_scope)
    /\ Has(leaf_value, S_deprecated)
    /\ RecognizedFields \subseteq DOMAIN leaf_value.m
    /\ Has(normalized[1], S_deprecated)

\* C6: normalizing a normalized leaf changes nothing.
C6_Idempotent ==
    (entry = "leaf" /\ renormalized # <<>>) => renormalized = normalized

C6_Witness ==
    /\ entry = "leaf"
    /\ renormalized # <<>>
    /\ ObjectLeaf
    /\ Has(leaf_value, S_description)
    /\ Has(leaf_value, S_scope)
    /\ normalized[1] # leaf_value

====
